---- MODULE Spec2Model ----
(***************************************************************************)
(* Three MCP servers (gov-uk-acronyms, gov-uk-search, wikipedia), each a   *)
(* JSON-RPC request handler in front of one to three lookup adapters.      *)
(* The model follows handle_request and the adapters of each main.py.      *)
(***************************************************************************)
EXTENDS Integers, Sequences, FiniteSets, TLC

VARIABLES
  pc,        \* "idle": no request in hand; "returned": handle_request is over
  server,    \* the server whose handler ran
  request,   \* the request it was given
  world,     \* what the outside world answered to the adapter, Null if not asked
  response,  \* the object handle_request returned
  raised,    \* whether an exception left handle_request
  failure,   \* the exception raised inside its try block, Null if none
  calls,     \* the adapter invocations it made, in order
  listed,    \* per server, the tools lists delivered so far
  request_handler, \* the instance attributes of the module's handler object
  frames,    \* per slot, the handle_request invocation in progress there
  fn_args,   \* the arguments an adapter function is applied to
  fn_result  \* what it returned, Null before it has

vars == <<pc, server, request, world, response, raised, failure, calls, listed,
          request_handler, frames, fn_args, fn_result>>

----------------------------------------------------------------------------
(* JSON / Python values.  A value is a record tagged with its Python type. *)

\* Python None, JSON null
Null == [type |-> "null"]
Str(s) == [type |-> "str", s |-> s]
Num(n) == [type |-> "num", n |-> n]
Arr(items) == [type |-> "list", items |-> items]
\* a dict: m is a function from its keys to values
Obj(m) == [type |-> "obj", m |-> m]
EmptyMap == [k \in {} |-> Null]

\* Python truth value of a value: what `not x` negates
Truthy(v) ==
  CASE v.type = "null" -> FALSE
    [] v.type = "str" -> v.s # ""
    [] v.type = "num" -> v.n # 0
    [] v.type = "list" -> v.items # <<>>
    [] v.type = "obj" -> DOMAIN v.m # {}

\* dict.get(key, default)
DictGet(d, key, default) == IF key \in DOMAIN d.m THEN d.m[key] ELSE default

\* type(v).__name__
PyTypeName(v) ==
  CASE v.type = "null" -> "NoneType"
    [] v.type = "str" -> "str"
    [] v.type = "num" -> "int"
    [] v.type = "list" -> "list"
    [] v.type = "obj" -> "dict"

\* str(v), as an f-string formats a value
PyStr(v) ==
  CASE v.type = "null" -> "None"
    [] v.type = "str" -> v.s
    [] v.type = "num" -> ToString(v.n)
    [] v.type = "list" -> "[]"
    [] v.type = "obj" -> "{}"

\* an exception object; str(e) is e.msg
Exc(cls, msg) == [cls |-> cls, msg |-> msg]

\* v.<attr> on a value that has no such attribute
AttributeError(v, attr) ==
  Exc("AttributeError",
      "'" \o PyTypeName(v) \o "' object has no attribute '" \o attr \o "'")

\* the classes `except requests.RequestException` catches
RequestExceptionClasses == {"RequestException", "ConnectionError", "Timeout", "HTTPError"}
IsRequestException(e) == e.cls \in RequestExceptionClasses

\* how a block of code ends: it returns a value or raises; calls lists the
\* calls made on the way (adapter invocations for a handler, URLs requested
\* for the search adapter)
Return(v, cs) == [kind |-> "return", value |-> v, calls |-> cs]
Raise(e, cs) == [kind |-> "raise", exc |-> e, calls |-> cs]

----------------------------------------------------------------------------
(* mcp.types *)

INVALID_PARAMS == -32602
INTERNAL_ERROR == -32603
METHOD_NOT_FOUND == -32601

ErrorData(code, message) == [code |-> code, message |-> message]
JSONRPCResponse(result, id) == [jsonrpc |-> "2.0", id |-> id, result |-> result]
JSONRPCError(error, id) == [jsonrpc |-> "2.0", id |-> id, error |-> error]

\* the result object of a successful tools/call
ToolCallResult(result) ==
  [content |-> <<[type |-> "text", text |-> result]>>,
   structuredContent |-> [result |-> result],
   isError |-> FALSE]

\* the result object of initialize
InitializeResult(name) ==
  [protocolVersion |-> "2024-11-05",
   capabilities |-> [tools |-> EmptyMap],
   serverInfo |-> [name |-> name, version |-> "1.0.0"]]

\* one entry of the tools list
ToolDescriptor(name, description, param, paramTitle, paramDescription, resultDescription) ==
  [name |-> name,
   description |-> description,
   inputSchema |->
     [type |-> "object",
      properties |-> [p \in {param} |->
                        [type |-> "string", title |-> paramTitle,
                         description |-> paramDescription]],
      required |-> <<param>>,
      title |-> name \o "Arguments"],
   outputSchema |->
     [type |-> "object",
      properties |-> [result |-> [type |-> "string", title |-> "Result",
                                  description |-> resultDescription]],
      required |-> <<"result">>,
      title |-> name \o "Output"]]

----------------------------------------------------------------------------
(* str methods used by the adapters *)

\* str.startswith(prefix)
StartsWith(s, prefix) ==
  Len(s) >= Len(prefix) /\ SubSeq(s, 1, Len(prefix)) = prefix

\* sub in s
Contains(sub, s) ==
  \E i \in 0..(Len(s) - Len(sub)) : SubSeq(s, i + 1, i + Len(sub)) = sub

Whitespace == {" ", "\n", "\t", "\r"}

RECURSIVE LStrip(_)
LStrip(s) == IF s # "" /\ Head(s) \in Whitespace THEN LStrip(Tail(s)) ELSE s

RECURSIVE RStrip(_)
RStrip(s) ==
  IF s # "" /\ SubSeq(s, Len(s), Len(s)) \in Whitespace
  THEN RStrip(SubSeq(s, 1, Len(s) - 1))
  ELSE s

\* str.strip()
Strip(s) == RStrip(LStrip(s))

LowerToUpper ==
  [a |-> "A", b |-> "B", c |-> "C", d |-> "D", e |-> "E", f |-> "F", g |-> "G",
   h |-> "H", i |-> "I", j |-> "J", k |-> "K", l |-> "L", m |-> "M", n |-> "N",
   o |-> "O", p |-> "P", q |-> "Q", r |-> "R", s |-> "S", t |-> "T", u |-> "U",
   v |-> "V", w |-> "W", x |-> "X", y |-> "Y", z |-> "Z"]

RECURSIVE Upper(_)
\* str.upper()
Upper(s) ==
  IF s = "" THEN ""
  ELSE (IF Head(s) \in DOMAIN LowerToUpper THEN LowerToUpper[Head(s)] ELSE Head(s))
       \o Upper(Tail(s))

RECURSIVE Join(_, _)
\* sep.join(parts)
Join(sep, parts) ==
  IF parts = <<>> THEN ""
  ELSE IF Len(parts) = 1 THEN parts[1]
  ELSE parts[1] \o sep \o Join(sep, Tail(parts))

\* repr of a str (titles here hold no quote characters)
PyRepr(s) == "'" \o s \o "'"

\* str(list of str)
PyListStr(items) == "[" \o Join(", ", [i \in 1..Len(items) |-> PyRepr(items[i])]) \o "]"

RECURSIVE JsonEscape(_)
\* the body of a JSON string literal as json.dumps writes it
JsonEscape(s) ==
  IF s = "" THEN ""
  ELSE (CASE Head(s) = "\"" -> "\\\""
          [] Head(s) = "\\" -> "\\\\"
          [] Head(s) = "\n" -> "\\n"
          [] Head(s) = "\t" -> "\\t"
          [] Head(s) = "\r" -> "\\r"
          [] OTHER -> Head(s))
       \o JsonEscape(Tail(s))

\* json.dumps(list of str, indent=2)
JsonDumpsIndent2(items) ==
  IF items = <<>> THEN "[]"
  ELSE "[\n"
       \o Join(",\n", [i \in 1..Len(items) |-> "  \"" \o JsonEscape(items[i]) \o "\""])
       \o "\n]"

\* what an external call yields: a value, or an exception raised
Ok(v) == [kind |-> "ok", value |-> v]
Fail(e) == [kind |-> "fail", exc |-> e]

----------------------------------------------------------------------------
(* gov_uk_acronyms/code/main.py: the adapter.  w.fetch is what                *)
(* requests.get + raise_for_status yield: Ok(page), page.th and page.td the   *)
(* regex matches of the header and data cells, or Fail(exception).            *)

ITEMS_PER_ROW == 4

\* data[key] = entry on a dict kept in insertion order
DictPut(data, entry) ==
  IF \E i \in 1..Len(data) : data[i].key = entry.key
  THEN [i \in 1..Len(data) |-> IF data[i].key = entry.key THEN entry ELSE data[i]]
  ELSE Append(data, entry)

RECURSIVE BuildData(_, _, _, _)
\* the loop over enumerate(acronyms); index counts from 0
BuildData(acronyms, info, index, data) ==
  IF index >= Len(acronyms) THEN data
  ELSE IF index * ITEMS_PER_ROW + 3 < Len(info)
       THEN BuildData(acronyms, info, index + 1,
              DictPut(data,
                [key |-> Upper(acronyms[index + 1]),
                 acronym |-> acronyms[index + 1],
                 meaning |-> Strip(info[index * ITEMS_PER_ROW + 1]),
                 definition |-> Strip(info[index * ITEMS_PER_ROW + 2]),
                 department |-> Strip(info[index * ITEMS_PER_ROW + 3]),
                 team |-> Strip(info[index * ITEMS_PER_ROW + 4])]))
       ELSE BuildData(acronyms, info, index + 1, data)

\* the parsed table of a page
ParseTable(page) ==
  BuildData([i \in 1..Len(page.th) |-> Strip(page.th[i])],
            [i \in 1..Len(page.td) |-> Strip(page.td[i])], 0, <<>>)

\* partial matches that only look for the query inside the key
PartialMatches_query_in_key(data, acronym_upper) ==
  SelectSeq(data, LAMBDA e : Contains(acronym_upper, e.key))

\* the keys that contain the query or are contained in it, in dict order
PartialMatches(data, acronym_upper) ==
  SelectSeq(data, LAMBDA e : Contains(acronym_upper, e.key) \/ Contains(e.key, acronym_upper))

\* the answer for an acronym found in the table
FormatMatch(match) ==
  Join(" ",
       <<match.acronym \o " stands for " \o match.meaning \o ".">>
       \o (IF match.definition # "" THEN <<"Definition: " \o match.definition>> ELSE <<>>)
       \o (IF match.department # "" THEN <<"Department: " \o match.department>> ELSE <<>>)
       \o (IF match.team # "" THEN <<"Team: " \o match.team>> ELSE <<>>))

\* the try block of search_gov_uk_acronyms
search_gov_uk_acronyms_try(acronym, w) ==
  IF w.fetch.kind = "fail" THEN Raise(w.fetch.exc, <<>>)
  ELSE IF acronym.type # "str" THEN Raise(AttributeError(acronym, "upper"), <<>>)
  ELSE
    LET data == ParseTable(w.fetch.value)
        acronym_upper == Upper(acronym.s)
        exact == SelectSeq(data, LAMBDA e : e.key = acronym_upper)
        partial_matches == PartialMatches(data, acronym_upper)
        shown == SubSeq(partial_matches, 1, IF Len(partial_matches) < 3
                                              THEN Len(partial_matches) ELSE 3)
    IN IF exact = <<>>
       THEN IF partial_matches # <<>>
            THEN Return("No exact match found for '" \o acronym.s
                          \o "'. Similar acronyms:\n"
                          \o Join("\n", [i \in 1..Len(shown) |->
                                shown[i].acronym \o ": " \o shown[i].meaning]),
                        <<>>)
            ELSE Return("No definition found for acronym '" \o acronym.s
                          \o "'. The acronym may not be in the UK government database.",
                        <<>>)
       ELSE Return(FormatMatch(exact[1]), <<>>)

\* the except clauses of search_gov_uk_acronyms, r being how its try block ended
search_gov_uk_acronyms_except(r) ==
  IF r.kind = "raise"
  THEN IF IsRequestException(r.exc)
       THEN Return("Error fetching data from UK government acronyms database: "
                     \o r.exc.msg, <<>>)
       ELSE Return("Error processing acronym lookup: " \o r.exc.msg, <<>>)
  ELSE r

search_gov_uk_acronyms(acronym, w) ==
  search_gov_uk_acronyms_except(search_gov_uk_acronyms_try(acronym, w))

----------------------------------------------------------------------------
(* gov_uk_search/code/main.py: the adapter.  w.search is what the search     *)
(* request yields, Ok(decoded JSON) or Fail(exception); w.scrape[url] is     *)
(* what fetching url yields, Ok(html) or Fail(exception).  An html page is   *)
(* [text, main_match, fallback_match]: its text and group(1) of each of the  *)
(* two regex searches, Null when the regex does not match.                   *)

search_url == "https://www.gov.uk/api/search.json"

extract_body_content(html_content) ==
  IF html_content.main_match # Null THEN Strip(html_content.main_match.s)
  ELSE IF html_content.fallback_match # Null THEN Strip(html_content.fallback_match.s)
  ELSE html_content.text

\* the try block of scrape_url
scrape_url_try(url, w) ==
  IF w.scrape[url].kind = "fail" THEN Raise(w.scrape[url].exc, <<url>>)
  ELSE Return(extract_body_content(w.scrape[url].value), <<url>>)

\* scrape_url without its except clause
scrape_url_unguarded(url, w) == scrape_url_try(url, w)

scrape_url(url, w) ==
  LET r == scrape_url_try(url, w)
  IN IF r.kind = "raise"
     THEN Return("Error scraping page: " \o r.exc.msg, r.calls)
     ELSE r

\* scraped_data.append(result), when scrape_url returned; so_far is the loop
\* until then: scraped_data and the URLs requested
AppendScraped(so_far, result) ==
  IF result.kind = "raise" THEN Raise(result.exc, so_far.calls \o result.calls)
  ELSE Return(Append(so_far.value, result.value), so_far.calls \o result.calls)

RECURSIVE ScrapeAll(_, _, _, _)
\* the loop over urls_to_scrape, from item i on
ScrapeAll(urls_to_scrape, i, so_far, w) ==
  IF i > Len(urls_to_scrape) \/ so_far.kind = "raise" THEN so_far
  ELSE ScrapeAll(urls_to_scrape, i + 1,
                 AppendScraped(so_far, scrape_url(urls_to_scrape[i], w)), w)

\* return json.dumps(scraped_data, indent=2), when the loop came to its end
DumpScraped(scraped) ==
  IF scraped.kind = "raise" THEN scraped
  ELSE Return(JsonDumpsIndent2(scraped.value), scraped.calls)

RECURSIVE UrlsToScrape(_, _, _)
\* the loop over search_data["results"], from item i on
UrlsToScrape(results, i, urls_to_scrape) ==
  IF i > Len(results) THEN Return(urls_to_scrape, <<>>)
  ELSE LET result == results[i]
       IN IF result.type # "obj" THEN Raise(AttributeError(result, "get"), <<>>)
          ELSE LET link == DictGet(result, "link", Str(""))
               IN IF ~Truthy(link) THEN UrlsToScrape(results, i + 1, urls_to_scrape)
                  ELSE IF link.type # "str"
                       THEN Raise(AttributeError(link, "startswith"), <<>>)
                  ELSE IF StartsWith(link.s, "https://")
                       THEN UrlsToScrape(results, i + 1, urls_to_scrape)
                  ELSE UrlsToScrape(results, i + 1,
                         Append(urls_to_scrape, "https://www.gov.uk" \o link.s))

\* the try block of search_gov_uk
search_gov_uk_try(search_term, w) ==
  IF w.search.kind = "fail" THEN Raise(w.search.exc, <<search_url>>)
  ELSE
    LET search_data == w.search.value
        sent == <<search_url>>
    IN IF search_data.type # "obj" THEN Raise(AttributeError(search_data, "get"), sent)
       ELSE IF ~Truthy(DictGet(search_data, "results", Null))
       THEN Return("No results found for search term: " \o PyStr(search_term), sent)
       ELSE IF search_data.m["results"].type = "num"
       THEN Raise(Exc("TypeError", "'int' object is not iterable"), sent)
       ELSE IF search_data.m["results"].type # "list"
       THEN Raise(AttributeError(Str(""), "get"), sent)
       ELSE
         LET urls == UrlsToScrape(search_data.m["results"].items, 1, <<>>)
         IN IF urls.kind = "raise" THEN Raise(urls.exc, sent)
            ELSE IF urls.value = <<>>
            THEN Return("No valid links found in search results for: "
                          \o PyStr(search_term), sent)
            ELSE DumpScraped(ScrapeAll(urls.value, 1, Return(<<>>, sent), w))

\* the except clauses of search_gov_uk, r being how its try block ended
search_gov_uk_except(r) ==
  IF r.kind = "raise"
  THEN IF IsRequestException(r.exc)
       THEN Return("Error searching gov.uk: " \o r.exc.msg, r.calls)
       ELSE Return("Error processing search results: " \o r.exc.msg, r.calls)
  ELSE r

search_gov_uk(search_term, w) == search_gov_uk_except(search_gov_uk_try(search_term, w))

----------------------------------------------------------------------------
(* wikipedia/code/main.py: the adapters.  w.search, w.page and w.summary     *)
(* are what wikipedia.search, wikipedia.page(...).content and                *)
(* wikipedia.summary yield: Ok(value) or Fail(exception).                    *)

search_for_pages_try(search_term, w) ==
  IF w.search.kind = "fail" THEN Raise(w.search.exc, <<>>)
  ELSE Return(PyListStr(w.search.value), <<>>)

search_for_pages(search_term, w) ==
  LET r == search_for_pages_try(search_term, w)
  IN IF r.kind = "raise"
     THEN Return("Error getting results from wikipedia: " \o r.exc.msg, <<>>)
     ELSE r

get_page_content_try(page_title, w) ==
  IF w.page.kind = "fail" THEN Raise(w.page.exc, <<>>)
  ELSE Return(w.page.value, <<>>)

get_page_content(page_title, w) ==
  LET r == get_page_content_try(page_title, w)
  IN IF r.kind = "raise"
     THEN Return("Error getting results from wikipedia: " \o r.exc.msg, <<>>)
     ELSE r

summarise_page_try(topic, w) ==
  IF w.summary.kind = "fail" THEN Raise(w.summary.exc, <<>>)
  ELSE Return(w.summary.value, <<>>)

\* summarise_page without its except clause
summarise_page_unguarded(topic, w) == summarise_page_try(topic, w)

summarise_page(topic, w) ==
  LET r == summarise_page_try(topic, w)
  IN IF r.kind = "raise"
     THEN Return("Error getting results from wikipedia: " \o r.exc.msg, <<>>)
     ELSE r

----------------------------------------------------------------------------
(* The request handlers.  A request is [jsonrpc, id, method, params] with   *)
(* params Null or Obj(mapping).  Each handler yields Return(response, calls) *)
(* or, should an exception leave it, Raise(exception, calls).                *)

\* result = adapter(arg), then the success Response built from it
InvokeAndWrap(adapter, arg, r, id) ==
  LET cs == <<[adapter |-> adapter, arg |-> arg]>>
  IN IF r.kind = "raise" THEN Raise(r.exc, cs)
     ELSE Return(JSONRPCResponse(ToolCallResult(r.value), id), cs)

\* a tools list naming the tool after the function behind it
GovUKAcronymsTools_function_name ==
  <<ToolDescriptor("search_gov_uk_acronyms",
                   "Search for the meaning of UK government acronyms",
                   "acronym", "Acronym",
                   "The acronym to search for (e.g., DfE, HMRC, NHS)",
                   "The meaning and details of the acronym")>>

\* the tools list of gov-uk-acronyms
GovUKAcronymsTools ==
  <<ToolDescriptor("search_gov_uk_acronym",
                   "Search for the meaning of UK government acronyms",
                   "acronym", "Acronym",
                   "The acronym to search for (e.g., DfE, HMRC, NHS)",
                   "The meaning and details of the acronym")>>

\* GovUKAcronymsRequestHandler.handle_request: if request.method == "tools/list"
GovUKAcronyms_tools_list(req) ==
  Return(JSONRPCResponse([tools |-> GovUKAcronymsTools], req.id), <<>>)

\* tools/call checking the argument before the tool name
GovUKAcronyms_tools_call_argument_first(req, w) ==
  IF ~Truthy(req.params)
  THEN Return(JSONRPCError(ErrorData(INVALID_PARAMS, "Missing parameters"), req.id), <<>>)
  ELSE LET tool_name == DictGet(req.params, "name", Null)
           arguments == DictGet(req.params, "arguments", Obj(EmptyMap))
       IN IF arguments.type # "obj"
          THEN Raise(AttributeError(arguments, "get"), <<>>)
          ELSE LET acronym == DictGet(arguments, "acronym", Null)
               IN IF ~Truthy(acronym)
                  THEN Return(JSONRPCError(ErrorData(INVALID_PARAMS,
                                "acronym parameter is required"), req.id), <<>>)
                  ELSE IF tool_name # Str("search_gov_uk_acronym")
                  THEN Return(JSONRPCError(ErrorData(INVALID_PARAMS,
                                "Unknown tool: " \o PyStr(tool_name)), req.id), <<>>)
                  ELSE InvokeAndWrap("search_gov_uk_acronyms", acronym,
                                     search_gov_uk_acronyms(acronym, w), req.id)

\* GovUKAcronymsRequestHandler.handle_request: elif request.method == "tools/call"
GovUKAcronyms_tools_call(req, w) ==
  IF ~Truthy(req.params)
  THEN Return(JSONRPCError(ErrorData(INVALID_PARAMS, "Missing parameters"), req.id), <<>>)
  ELSE LET tool_name == DictGet(req.params, "name", Null)
       IN IF tool_name # Str("search_gov_uk_acronym")
          THEN Return(JSONRPCError(ErrorData(INVALID_PARAMS,
                        "Unknown tool: " \o PyStr(tool_name)), req.id), <<>>)
          ELSE LET arguments == DictGet(req.params, "arguments", Obj(EmptyMap))
               IN IF arguments.type # "obj"
                  THEN Raise(AttributeError(arguments, "get"), <<>>)
                  ELSE LET acronym == DictGet(arguments, "acronym", Null)
                       IN IF ~Truthy(acronym)
                          THEN Return(JSONRPCError(ErrorData(INVALID_PARAMS,
                                        "acronym parameter is required"), req.id), <<>>)
                          ELSE InvokeAndWrap("search_gov_uk_acronyms", acronym,
                                             search_gov_uk_acronyms(acronym, w), req.id)

\* GovUKAcronymsRequestHandler.handle_request: elif request.method == "initialize"
GovUKAcronyms_initialize(req) ==
  Return(JSONRPCResponse(InitializeResult("gov-uk-acronyms"), req.id), <<>>)

\* GovUKAcronymsRequestHandler.handle_request: elif request.method == "ping"
GovUKAcronyms_ping(req) == Return(JSONRPCResponse(EmptyMap, req.id), <<>>)

\* GovUKAcronymsRequestHandler.handle_request: else
GovUKAcronyms_method_not_found(req) ==
  Return(JSONRPCError(ErrorData(METHOD_NOT_FOUND,
           "Method not found: " \o req.method), req.id), <<>>)

\* the try block of GovUKAcronymsRequestHandler.handle_request
GovUKAcronyms_try(req, w) ==
  IF req.method = "tools/list" THEN GovUKAcronyms_tools_list(req)
  ELSE IF req.method = "tools/call" THEN GovUKAcronyms_tools_call(req, w)
  ELSE IF req.method = "initialize" THEN GovUKAcronyms_initialize(req)
  ELSE IF req.method = "ping" THEN GovUKAcronyms_ping(req)
  ELSE GovUKAcronyms_method_not_found(req)

\* handle_request without its except clause
GovUKAcronyms_handle_request_unguarded(req, w) == GovUKAcronyms_try(req, w)

\* except Exception as e of handle_request, r being how the try block ended
handle_request_except(req, r) ==
  IF r.kind = "raise"
  THEN Return(JSONRPCError(ErrorData(INTERNAL_ERROR, r.exc.msg), req.id), r.calls)
  ELSE r

\* GovUKAcronymsRequestHandler.handle_request: the try block under except Exception
GovUKAcronyms_handle_request(req, w) ==
  handle_request_except(req, GovUKAcronyms_try(req, w))

\* the tools list of gov-uk-search
GovUKSearchTools ==
  <<ToolDescriptor("search_gov_uk",
                   "Searches the gov.uk website for 5 pages and returns raw HTML body content",
                   "search_term", "Search Term",
                   "The search term to search for on gov.uk",
                   "JSON string containing scraped content from gov.uk pages")>>

\* GovUKSearchRequestHandler.handle_request: if request.method == "tools/list"
GovUKSearch_tools_list(req) ==
  Return(JSONRPCResponse([tools |-> GovUKSearchTools], req.id), <<>>)

\* tools/call testing `request.params is None` in place of `not request.params`
GovUKSearch_tools_call_none_only(req, w) ==
  IF req.params = Null
  THEN Return(JSONRPCError(ErrorData(INVALID_PARAMS, "Missing parameters"), req.id), <<>>)
  ELSE LET tool_name == DictGet(req.params, "name", Null)
       IN IF tool_name # Str("search_gov_uk")
          THEN Return(JSONRPCError(ErrorData(INVALID_PARAMS,
                        "Unknown tool: " \o PyStr(tool_name)), req.id), <<>>)
          ELSE LET arguments == DictGet(req.params, "arguments", Obj(EmptyMap))
               IN IF arguments.type # "obj"
                  THEN Raise(AttributeError(arguments, "get"), <<>>)
                  ELSE LET search_term == DictGet(arguments, "search_term", Null)
                       IN IF ~Truthy(search_term)
                          THEN Return(JSONRPCError(ErrorData(INVALID_PARAMS,
                                        "search_term parameter is required"), req.id), <<>>)
                          ELSE InvokeAndWrap("search_gov_uk", search_term,
                                             search_gov_uk(search_term, w), req.id)

\* tools/call testing `search_term is None` in place of `not search_term`
GovUKSearch_tools_call_is_none(req, w) ==
  IF ~Truthy(req.params)
  THEN Return(JSONRPCError(ErrorData(INVALID_PARAMS, "Missing parameters"), req.id), <<>>)
  ELSE LET tool_name == DictGet(req.params, "name", Null)
       IN IF tool_name # Str("search_gov_uk")
          THEN Return(JSONRPCError(ErrorData(INVALID_PARAMS,
                        "Unknown tool: " \o PyStr(tool_name)), req.id), <<>>)
          ELSE LET arguments == DictGet(req.params, "arguments", Obj(EmptyMap))
               IN IF arguments.type # "obj"
                  THEN Raise(AttributeError(arguments, "get"), <<>>)
                  ELSE LET search_term == DictGet(arguments, "search_term", Null)
                       IN IF search_term = Null
                          THEN Return(JSONRPCError(ErrorData(INVALID_PARAMS,
                                        "search_term parameter is required"), req.id), <<>>)
                          ELSE InvokeAndWrap("search_gov_uk", search_term,
                                             search_gov_uk(search_term, w), req.id)

\* GovUKSearchRequestHandler.handle_request: elif request.method == "tools/call"
GovUKSearch_tools_call(req, w) ==
  IF ~Truthy(req.params)
  THEN Return(JSONRPCError(ErrorData(INVALID_PARAMS, "Missing parameters"), req.id), <<>>)
  ELSE LET tool_name == DictGet(req.params, "name", Null)
       IN IF tool_name # Str("search_gov_uk")
          THEN Return(JSONRPCError(ErrorData(INVALID_PARAMS,
                        "Unknown tool: " \o PyStr(tool_name)), req.id), <<>>)
          ELSE LET arguments == DictGet(req.params, "arguments", Obj(EmptyMap))
               IN IF arguments.type # "obj"
                  THEN Raise(AttributeError(arguments, "get"), <<>>)
                  ELSE LET search_term == DictGet(arguments, "search_term", Null)
                       IN IF ~Truthy(search_term)
                          THEN Return(JSONRPCError(ErrorData(INVALID_PARAMS,
                                        "search_term parameter is required"), req.id), <<>>)
                          ELSE InvokeAndWrap("search_gov_uk", search_term,
                                             search_gov_uk(search_term, w), req.id)

\* initialize answering with the protocol version the client asked for
GovUKSearch_initialize_reads_params(req) ==
  IF req.params.type # "obj" THEN Raise(AttributeError(req.params, "get"), <<>>)
  ELSE Return(JSONRPCResponse(
                [protocolVersion |-> PyStr(DictGet(req.params, "protocolVersion",
                                                   Str("2024-11-05"))),
                 capabilities |-> [tools |-> EmptyMap],
                 serverInfo |-> [name |-> "gov-uk-search", version |-> "1.0.0"]],
                req.id), <<>>)

\* GovUKSearchRequestHandler.handle_request: elif request.method == "initialize"
GovUKSearch_initialize(req) ==
  Return(JSONRPCResponse(InitializeResult("gov-uk-search"), req.id), <<>>)

\* GovUKSearchRequestHandler.handle_request: elif request.method == "ping"
GovUKSearch_ping(req) == Return(JSONRPCResponse(EmptyMap, req.id), <<>>)

\* GovUKSearchRequestHandler.handle_request: else
GovUKSearch_method_not_found(req) ==
  Return(JSONRPCError(ErrorData(METHOD_NOT_FOUND,
           "Method not found: " \o req.method), req.id), <<>>)

\* the try block of GovUKSearchRequestHandler.handle_request
GovUKSearch_try(req, w) ==
  IF req.method = "tools/list" THEN GovUKSearch_tools_list(req)
  ELSE IF req.method = "tools/call" THEN GovUKSearch_tools_call(req, w)
  ELSE IF req.method = "initialize" THEN GovUKSearch_initialize(req)
  ELSE IF req.method = "ping" THEN GovUKSearch_ping(req)
  ELSE GovUKSearch_method_not_found(req)

\* an except clause that hides the failure's message
GovUKSearch_handle_request_fixed_message(req, w) ==
  LET r == GovUKSearch_try(req, w)
  IN IF r.kind = "raise"
     THEN Return(JSONRPCError(ErrorData(INTERNAL_ERROR, "Internal error"), req.id), r.calls)
     ELSE r

\* GovUKSearchRequestHandler.handle_request: the try block under except Exception
GovUKSearch_handle_request(req, w) ==
  handle_request_except(req, GovUKSearch_try(req, w))

\* the tools list of wikipedia
WikipediaTools ==
  <<ToolDescriptor("search_for_pages",
                   "Searches wikipedia for relevant pages",
                   "search_term", "Search Term",
                   "The search term to search for on Wikipedia",
                   "List of Wikipedia page titles matching the search term"),
    ToolDescriptor("get_page_content",
                   "Gets information about a specific page based on page title",
                   "page_title", "Page Title",
                   "The title of the Wikipedia page to retrieve",
                   "Full content of the Wikipedia page"),
    ToolDescriptor("summarise_page",
                   "Summarises a given wikipedia topic",
                   "topic", "Topic",
                   "The Wikipedia topic to summarize",
                   "Summary of the Wikipedia topic")>>

\* WikipediaRequestHandler.handle_request: if request.method == "tools/list"
Wikipedia_tools_list(req) ==
  Return(JSONRPCResponse([tools |-> WikipediaTools], req.id), <<>>)

\* tools/call running summarise_page for get_page_content
Wikipedia_tools_call_swapped(req, w) ==
  IF ~Truthy(req.params)
  THEN Return(JSONRPCError(ErrorData(INVALID_PARAMS, "Missing parameters"), req.id), <<>>)
  ELSE LET tool_name == DictGet(req.params, "name", Null)
           arguments == DictGet(req.params, "arguments", Obj(EmptyMap))
       IN IF tool_name = Str("search_for_pages")
          THEN IF arguments.type # "obj"
               THEN Raise(AttributeError(arguments, "get"), <<>>)
               ELSE LET search_term == DictGet(arguments, "search_term", Null)
                    IN IF ~Truthy(search_term)
                       THEN Return(JSONRPCError(ErrorData(INVALID_PARAMS,
                                     "search_term parameter is required"), req.id), <<>>)
                       ELSE InvokeAndWrap("search_for_pages", search_term,
                                          search_for_pages(search_term, w), req.id)
          ELSE IF tool_name = Str("get_page_content")
          THEN IF arguments.type # "obj"
               THEN Raise(AttributeError(arguments, "get"), <<>>)
               ELSE LET page_title == DictGet(arguments, "page_title", Null)
                    IN IF ~Truthy(page_title)
                       THEN Return(JSONRPCError(ErrorData(INVALID_PARAMS,
                                     "page_title parameter is required"), req.id), <<>>)
                       ELSE InvokeAndWrap("summarise_page", page_title,
                                          summarise_page(page_title, w), req.id)
          ELSE IF tool_name = Str("summarise_page")
          THEN IF arguments.type # "obj"
               THEN Raise(AttributeError(arguments, "get"), <<>>)
               ELSE LET topic == DictGet(arguments, "topic", Null)
                    IN IF ~Truthy(topic)
                       THEN Return(JSONRPCError(ErrorData(INVALID_PARAMS,
                                     "topic parameter is required"), req.id), <<>>)
                       ELSE InvokeAndWrap("summarise_page", topic,
                                          summarise_page(topic, w), req.id)
          ELSE Return(JSONRPCError(ErrorData(INVALID_PARAMS,
                        "Unknown tool: " \o PyStr(tool_name)), req.id), <<>>)

\* WikipediaRequestHandler.handle_request: elif request.method == "tools/call"
Wikipedia_tools_call(req, w) ==
  IF ~Truthy(req.params)
  THEN Return(JSONRPCError(ErrorData(INVALID_PARAMS, "Missing parameters"), req.id), <<>>)
  ELSE LET tool_name == DictGet(req.params, "name", Null)
           arguments == DictGet(req.params, "arguments", Obj(EmptyMap))
       IN IF tool_name = Str("search_for_pages")
          THEN IF arguments.type # "obj"
               THEN Raise(AttributeError(arguments, "get"), <<>>)
               ELSE LET search_term == DictGet(arguments, "search_term", Null)
                    IN IF ~Truthy(search_term)
                       THEN Return(JSONRPCError(ErrorData(INVALID_PARAMS,
                                     "search_term parameter is required"), req.id), <<>>)
                       ELSE InvokeAndWrap("search_for_pages", search_term,
                                          search_for_pages(search_term, w), req.id)
          ELSE IF tool_name = Str("get_page_content")
          THEN IF arguments.type # "obj"
               THEN Raise(AttributeError(arguments, "get"), <<>>)
               ELSE LET page_title == DictGet(arguments, "page_title", Null)
                    IN IF ~Truthy(page_title)
                       THEN Return(JSONRPCError(ErrorData(INVALID_PARAMS,
                                     "page_title parameter is required"), req.id), <<>>)
                       ELSE InvokeAndWrap("get_page_content", page_title,
                                          get_page_content(page_title, w), req.id)
          ELSE IF tool_name = Str("summarise_page")
          THEN IF arguments.type # "obj"
               THEN Raise(AttributeError(arguments, "get"), <<>>)
               ELSE LET topic == DictGet(arguments, "topic", Null)
                    IN IF ~Truthy(topic)
                       THEN Return(JSONRPCError(ErrorData(INVALID_PARAMS,
                                     "topic parameter is required"), req.id), <<>>)
                       ELSE InvokeAndWrap("summarise_page", topic,
                                          summarise_page(topic, w), req.id)
          ELSE Return(JSONRPCError(ErrorData(INVALID_PARAMS,
                        "Unknown tool: " \o PyStr(tool_name)), req.id), <<>>)

\* WikipediaRequestHandler.handle_request: elif request.method == "initialize"
Wikipedia_initialize(req) ==
  Return(JSONRPCResponse(InitializeResult("wikipedia"), req.id), <<>>)

\* WikipediaRequestHandler.handle_request: elif request.method == "ping"
Wikipedia_ping(req) == Return(JSONRPCResponse(EmptyMap, req.id), <<>>)

\* a final else that treats any other method as a ping
Wikipedia_method_not_found_as_ping(req) ==
  Return(JSONRPCResponse(EmptyMap, req.id), <<>>)

\* WikipediaRequestHandler.handle_request: else
Wikipedia_method_not_found(req) ==
  Return(JSONRPCError(ErrorData(METHOD_NOT_FOUND,
           "Method not found: " \o req.method), req.id), <<>>)

\* the try block of WikipediaRequestHandler.handle_request
Wikipedia_try(req, w) ==
  IF req.method = "tools/list" THEN Wikipedia_tools_list(req)
  ELSE IF req.method = "tools/call" THEN Wikipedia_tools_call(req, w)
  ELSE IF req.method = "initialize" THEN Wikipedia_initialize(req)
  ELSE IF req.method = "ping" THEN Wikipedia_ping(req)
  ELSE Wikipedia_method_not_found(req)

\* WikipediaRequestHandler.handle_request: the try block under except Exception
Wikipedia_handle_request(req, w) ==
  handle_request_except(req, Wikipedia_try(req, w))

----------------------------------------------------------------------------
(* The requests the hosting shim may deliver, and what the outside world     *)
(* may answer to an adapter's lookup.                                        *)

\* bound of the model: the most keys an arguments mapping holds
MaxArgKeys == 1

Servers == {"gov-uk-acronyms", "gov-uk-search", "wikipedia"}

Methods ==
  {"initialize", "ping", "tools/list", "tools/call",
   "bogus", "Tools/Call", "tools/calls", ""}

Ids == {Num(1), Str("req-1"), Null}

ToolNameValues ==
  {Null, Num(5)} \cup
  {Str(n) : n \in {"search_gov_uk_acronym", "search_gov_uk", "search_for_pages",
                   "get_page_content", "summarise_page",
                   "Search_Gov_Uk_Acronym", "SEARCH_GOV_UK", "Summarise_Page",
                   "search_gov_uk_acronyms", ""}}

ArgKeys == {"acronym", "search_term", "page_title", "topic"}
ArgVals == {Str(""), Str("nhs"), Null, Num(0), Num(7)}

ArgMaps ==
  UNION {[ks -> ArgVals] : ks \in {k \in SUBSET ArgKeys : Cardinality(k) <= MaxArgKeys}}

ArgumentsValues ==
  {Null, Str("nhs"), Num(1), Arr(<<>>)} \cup {Obj(m) : m \in ArgMaps}

\* params: absent, empty, or a mapping with any of name, arguments, cursor
ParamsWith(argumentsValues) ==
  {Null, Obj(EmptyMap), Obj([cursor |-> Str("x")])}
  \cup {Obj([name |-> n]) : n \in ToolNameValues}
  \cup {Obj([arguments |-> a]) : a \in argumentsValues}
  \cup {Obj([name |-> n, arguments |-> a]) : n \in ToolNameValues, a \in argumentsValues}

ParamsValues == ParamsWith(ArgumentsValues)

\* every method comes with every shape of params; tools/call, the one method
\* that reads the arguments, also with every arguments value
Requests ==
  [jsonrpc : {"2.0"}, id : Ids, method : Methods,
   params : ParamsWith({Null, Obj(EmptyMap), Obj([search_term |-> Str("nhs")])})]
  \cup [jsonrpc : {"2.0"}, id : Ids, method : {"tools/call"}, params : ParamsValues]

ConnectionError == Exc("ConnectionError", "Connection refused")
HTTPError == Exc("HTTPError", "503 Server Error: Service Unavailable")
Timeout == Exc("Timeout", "Read timed out. (read timeout=10)")
JSONDecodeError == Exc("ValueError", "Expecting value: line 1 column 1 (char 0)")

AcronymPages ==
  {[th |-> <<>>, td |-> <<>>],
   [th |-> <<"NHS">>, td |-> <<"National Health Service", "", "DHSC">>],
   [th |-> <<" NHS ", "NHSX", "DfE">>,
    td |-> <<"National Health Service", "Publicly funded healthcare", "DHSC", "",
             "NHS user experience", "", "", "Digital",
             " Department for Education ", "", "", "">>]}

AcronymsWorlds ==
  [fetch : {Fail(ConnectionError), Fail(HTTPError)} \cup {Ok(p) : p \in AcronymPages}]

ResultLists ==
  {<<>>,
   <<Obj([link |-> Str("/vat-rates")])>>,
   <<Obj([link |-> Str("https://www.example.org/guide")]), Obj(EmptyMap)>>,
   <<Obj([link |-> Str("/income-tax")]), Obj([link |-> Str("https://www.example.org/guide")]),
     Obj([link |-> Str("/vat-rates")])>>,
   <<Obj([link |-> Str("/vat-rates")]), Obj([link |-> Num(3)])>>}

ScrapeUrls == {"https://www.gov.uk/vat-rates", "https://www.gov.uk/income-tax"}

HtmlPages ==
  {[text |-> "<html><main role=\"main\"> VAT\n \"rates\" </main></html>",
    main_match |-> Null, fallback_match |-> Str(" VAT\n \"rates\" ")]}

SearchWorlds ==
  [search : {Fail(ConnectionError), Fail(HTTPError), Fail(JSONDecodeError),
             Ok(Arr(<<>>)), Ok(Obj(EmptyMap))}
            \cup {Ok(Obj([results |-> Arr(rs)])) : rs \in ResultLists},
   scrape : [ScrapeUrls -> {Fail(Timeout)} \cup {Ok(h) : h \in HtmlPages}]]

PageError == Exc("PageError", "Page id \"nhs\" does not match any pages. Try another id!")

WikipediaWorlds ==
  [search : {Ok(<<>>), Ok(<<"National Health Service", "NHS England">>),
             Fail(ConnectionError)},
   page : {Ok("The National Health Service (NHS) is ..."), Fail(PageError)},
   summary : {Ok("The NHS is the publicly funded healthcare system."),
              Fail(PageError)}]

Worlds(srv) ==
  CASE srv = "gov-uk-acronyms" -> AcronymsWorlds
    [] srv = "gov-uk-search" -> SearchWorlds
    [] srv = "wikipedia" -> WikipediaWorlds

\* request_handler.handle_request of the server's module
handle_request(srv, req, w) ==
  CASE srv = "gov-uk-acronyms" -> GovUKAcronyms_handle_request(req, w)
    [] srv = "gov-uk-search" -> GovUKSearch_handle_request(req, w)
    [] srv = "wikipedia" -> Wikipedia_handle_request(req, w)

\* the try block of the server's handle_request
handle_request_try(srv, req, w) ==
  CASE srv = "gov-uk-acronyms" -> GovUKAcronyms_try(req, w)
    [] srv = "gov-uk-search" -> GovUKSearch_try(req, w)
    [] srv = "wikipedia" -> Wikipedia_try(req, w)

\* whether handling req runs an adapter, and so consults the outside world
ReachesAdapter(srv, req) ==
  handle_request(srv, req, CHOOSE w \in Worlds(srv) : TRUE).calls # <<>>

----------------------------------------------------------------------------
(* The state machine: the shim hands one request to a server's handler and  *)
(* takes back what it returns.                                               *)

Init ==
  /\ pc = "idle"
  /\ server = "none"
  /\ request = Null
  /\ world = Null
  /\ response = Null
  /\ raised = FALSE
  /\ failure = Null
  /\ calls = <<>>
  /\ listed = [s \in Servers |-> {}]
  /\ request_handler = EmptyMap
  /\ frames = <<>>
  /\ fn_args = Null
  /\ fn_result = Null

\* what the shim observes of one handle_request: r is how it ended, t how
\* its try block ended
Observed(r, t) ==
  /\ raised' = (r.kind = "raise")
  /\ response' = IF r.kind = "raise" THEN Null ELSE r.value
  /\ failure' = IF t.kind = "raise" THEN t.exc ELSE Null
  /\ calls' = r.calls

\* lambda_handler of server srv: one request goes through handle_request
Handle(srv) ==
  /\ pc = "idle"
  /\ \E req \in Requests :
       \E w \in (IF ReachesAdapter(srv, req) THEN Worlds(srv) ELSE {Null}) :
         /\ server' = srv
         /\ request' = req
         /\ world' = w
         /\ Observed(handle_request(srv, req, w), handle_request_try(srv, req, w))
  /\ pc' = "returned"
  /\ UNCHANGED <<listed, request_handler, frames, fn_args, fn_result>>

GovUKAcronyms_lambda_handler == Handle("gov-uk-acronyms")
GovUKSearch_lambda_handler == Handle("gov-uk-search")
Wikipedia_lambda_handler == Handle("wikipedia")

\* the shim has delivered the response; the next event may arrive
Respond ==
  /\ pc = "returned"
  /\ pc' = "idle"
  /\ listed' = IF ~raised /\ request.method = "tools/list"
                  /\ "result" \in DOMAIN response
               THEN [listed EXCEPT ![server] = @ \cup {response.result.tools}]
               ELSE listed
  /\ server' = "none"
  /\ request' = Null
  /\ world' = Null
  /\ response' = Null
  /\ raised' = FALSE
  /\ failure' = Null
  /\ calls' = <<>>
  /\ UNCHANGED <<request_handler, frames, fn_args, fn_result>>

Next ==
  \/ GovUKAcronyms_lambda_handler
  \/ GovUKSearch_lambda_handler
  \/ Wikipedia_lambda_handler
  \/ Respond

Spec == Init /\ [][Next]_vars

----------------------------------------------------------------------------
(* Properties of the handlers.                                               *)

Returned == pc = "returned"

\* a success Response: it has a result and no error
IsSuccess(r) == "result" \in DOMAIN r /\ "error" \notin DOMAIN r
\* an ErrorResponse: it has an error and no result
IsErrorResponse(r) == "error" \in DOMAIN r /\ "result" \notin DOMAIN r
\* an ErrorResponse with this code and this message
ErrorIs(r, code, message) ==
  IsErrorResponse(r) /\ r.error.code = code /\ r.error.message = message

KnownMethods == {"initialize", "ping", "tools/list", "tools/call"}

\* the tool names of each server, and the argument each tool requires
ServerToolNames(srv) ==
  CASE srv = "gov-uk-acronyms" -> {"search_gov_uk_acronym"}
    [] srv = "gov-uk-search" -> {"search_gov_uk"}
    [] srv = "wikipedia" -> {"search_for_pages", "get_page_content", "summarise_page"}

RequiredArgument(tool) ==
  CASE tool = "search_gov_uk_acronym" -> "acronym"
    [] tool = "search_gov_uk" -> "search_term"
    [] tool = "search_for_pages" -> "search_term"
    [] tool = "get_page_content" -> "page_title"
    [] tool = "summarise_page" -> "topic"

\* the request in hand is a tools/call with non-empty params
IsCall == Returned /\ request.method = "tools/call" /\ Truthy(request.params)
CallName == DictGet(request.params, "name", Null)
CallArguments == DictGet(request.params, "arguments", Obj(EmptyMap))
\* ... whose name is a tool of the server
IsKnownCall ==
  IsCall /\ CallName.type = "str" /\ CallName.s \in ServerToolNames(server)
\* ... and whose arguments is a mapping
IsMappedCall == IsKnownCall /\ CallArguments.type = "obj"
CallArgument == DictGet(CallArguments, RequiredArgument(CallName.s), Null)

\* C1: every request, whatever its method and params and whatever the
\* adapter's lookup yields, is answered with exactly one object, a success
\* Response (result, no error) or an ErrorResponse (error, no result), and
\* no exception leaves handle_request.
C1_ExactlyOneResponse ==
  Returned =>
    /\ ~raised
    /\ DOMAIN response \in {{"jsonrpc", "id", "result"}, {"jsonrpc", "id", "error"}}
    /\ IsSuccess(response) \/ IsErrorResponse(response)

\* a request whose handling raised inside the try block, answered all the same
C1_Witness ==
  /\ Returned /\ failure # Null
  /\ IsErrorResponse(response)

\* C2: a method other than initialize, ping, tools/list and tools/call
\* (exact match) is answered, on every server and whatever params holds,
\* with error -32601 "Method not found: <method>".
C2_MethodNotFound ==
  (Returned /\ request.method \notin KnownMethods) =>
    /\ ErrorIs(response, -32601, "Method not found: " \o request.method)
    /\ calls = <<>>

\* a method that differs from tools/call in letter case only, sent with a
\* complete tool call in params
C2_Witness ==
  /\ Returned /\ request.method = "Tools/Call" /\ server = "gov-uk-search"
  /\ request.params = Obj([name |-> Str("search_gov_uk"),
                           arguments |-> Obj([search_term |-> Str("nhs")])])
  /\ IsErrorResponse(response)

\* C3: tools/call with params absent or the empty mapping is answered with
\* INVALID_PARAMS "Missing parameters"; no later check is reached and no
\* adapter runs.
C3_MissingParameters ==
  (Returned /\ request.method = "tools/call"
     /\ request.params \in {Null, Obj(EmptyMap)}) =>
    /\ ErrorIs(response, -32602, "Missing parameters")
    /\ calls = <<>>

C3_Witness ==
  /\ Returned /\ request.method = "tools/call" /\ request.params = Obj(EmptyMap)
  /\ IsErrorResponse(response)

\* C4: tools/call with non-empty params whose name is not exactly a tool name
\* of the server (missing, or differing in letter case only, too) is answered
\* with INVALID_PARAMS "Unknown tool: <name>", whatever arguments is; the
\* unknown tool is reported before any missing argument.
C4_UnknownTool ==
  (IsCall /\ ~IsKnownCall) =>
    /\ ErrorIs(response, -32602, "Unknown tool: " \o PyStr(CallName))
    /\ calls = <<>>

\* a name in the wrong letter case, with arguments lacking the required field
C4_Witness ==
  /\ IsCall /\ server = "gov-uk-search" /\ CallName = Str("SEARCH_GOV_UK")
  /\ CallArguments = Obj(EmptyMap)
  /\ IsErrorResponse(response)

\* C5: tools/call with a tool name of the server and the required argument
\* absent from, or empty in, the arguments mapping (the empty mapping when
\* params has no arguments) is answered with INVALID_PARAMS
\* "<param> parameter is required", and no adapter runs.
C5_MissingArgument ==
  (IsMappedCall /\ ~Truthy(CallArgument)) =>
    /\ ErrorIs(response, -32602,
               RequiredArgument(CallName.s) \o " parameter is required")
    /\ calls = <<>>

\* the required argument is present but the empty string
C5_Witness ==
  /\ IsMappedCall /\ server = "wikipedia" /\ CallName = Str("get_page_content")
  /\ "page_title" \in DOMAIN CallArguments.m /\ CallArgument = Str("")
  /\ IsErrorResponse(response)

\* the function behind each tool, and what it returns for an argument
AdapterName(tool) ==
  IF tool = "search_gov_uk_acronym" THEN "search_gov_uk_acronyms" ELSE tool

AdapterReturn(tool, arg, w) ==
  CASE tool = "search_gov_uk_acronym" -> search_gov_uk_acronyms(arg, w)
    [] tool = "search_gov_uk" -> search_gov_uk(arg, w)
    [] tool = "search_for_pages" -> search_for_pages(arg, w)
    [] tool = "get_page_content" -> get_page_content(arg, w)
    [] tool = "summarise_page" -> summarise_page(arg, w)

\* C6: tools/call with a tool name of the server and its required argument
\* present and non-empty is answered with a success Response whose result is
\* one content element {type: "text", text: s}, structuredContent.result = s
\* and isError = false, s being what the adapter of that name returned for
\* that argument's value.
C6_CallSucceeds ==
  (IsMappedCall /\ Truthy(CallArgument)) =>
    /\ calls = <<[adapter |-> AdapterName(CallName.s), arg |-> CallArgument]>>
    /\ IsSuccess(response)
    /\ DOMAIN response.result = {"content", "structuredContent", "isError"}
    /\ Len(response.result.content) = 1
    /\ response.result.content[1] =
         [type |-> "text", text |-> AdapterReturn(CallName.s, CallArgument, world).value]
    /\ response.result.structuredContent = [result |-> response.result.content[1].text]
    /\ response.result.isError = FALSE

C6_Witness ==
  /\ IsMappedCall /\ server = "wikipedia" /\ CallName = Str("get_page_content")
  /\ CallArgument = Str("nhs") /\ world.page.kind = "ok"
  /\ IsSuccess(response)

\* C7: initialize and ping succeed whatever params holds, without reading
\* it: initialize returns the fixed descriptor of the server, ping the empty
\* result; neither yields an ErrorResponse.
C7_InitializeAndPing ==
  (Returned /\ request.method \in {"initialize", "ping"}) =>
    /\ IsSuccess(response)
    /\ failure = Null /\ calls = <<>>
    /\ request.method = "initialize" =>
         response.result =
           [protocolVersion |-> "2024-11-05",
            capabilities |-> [tools |-> EmptyMap],
            serverInfo |-> [name |-> server, version |-> "1.0.0"]]
    /\ request.method = "ping" => response.result = EmptyMap

C7_Witness ==
  /\ Returned /\ request.method = "initialize" /\ request.params = Null
  /\ IsSuccess(response)

\* the names a tools list holds, and its descriptor of a name
ListedNames(tools) == {tools[i].name : i \in 1..Len(tools)}
DescriptorOf(tools, name) == tools[CHOOSE i \in 1..Len(tools) : tools[i].name = name]
SeqRange(q) == {q[i] : i \in 1..Len(q)}

\* C8: on each server tools/list returns, for any params, the same ordered
\* sequence on every call; the names it lists are exactly the names
\* tools/call does not answer with "Unknown tool"; and each descriptor's
\* inputSchema.required holds exactly the argument tools/call insists on.
C8_ListMatchesDispatch ==
  /\ \A s \in Servers : Cardinality(listed[s]) <= 1
  /\ (Returned /\ request.method = "tools/list") =>
       /\ IsSuccess(response)
       /\ listed[server] \subseteq {response.result.tools}
  /\ IsCall =>
       \A tools \in listed[server] :
         LET isListed == CallName.type = "str" /\ CallName.s \in ListedNames(tools)
             missing ==
               {p \in SeqRange(DescriptorOf(tools, CallName.s).inputSchema.required) :
                  ~Truthy(DictGet(CallArguments, p, Null))}
         IN /\ isListed <=> ~ErrorIs(response, -32602, "Unknown tool: " \o PyStr(CallName))
            /\ (isListed /\ CallArguments.type = "obj") =>
                 /\ missing # {} =>
                      \E p \in missing :
                        ErrorIs(response, -32602, p \o " parameter is required")
                 /\ missing = {} => IsSuccess(response)

\* a tools/list on a server that has delivered its list before
C8_Witness ==
  /\ Returned /\ server = "wikipedia" /\ request.method = "tools/list"
  /\ request.params # Null /\ listed["wikipedia"] # {}
  /\ Len(response.result.tools) = 3

\* C9: a failure raised while handling a request (such as tools/call with a
\* tool name of the server and an arguments value that is present but no
\* mapping) is answered with INTERNAL_ERROR carrying the failure's message
\* and the request's id; never with a success Response, and the failure
\* does not leave handle_request.
C9_InternalError ==
  /\ (Returned /\ failure # Null) =>
       /\ ~raised
       /\ ErrorIs(response, -32603, failure.msg)
       /\ response.id = request.id
  /\ (IsKnownCall /\ "arguments" \in DOMAIN request.params.m
        /\ CallArguments.type # "obj") =>
       /\ failure # Null
       /\ failure.msg =
            "'" \o PyTypeName(CallArguments) \o "' object has no attribute 'get'"

C9_Witness ==
  /\ IsKnownCall /\ server = "wikipedia" /\ "arguments" \in DOMAIN request.params.m
  /\ CallArguments = Null
  /\ ErrorIs(response, -32603, "'NoneType' object has no attribute 'get'")

\* the exception the outside world raised to the adapter that ran, Null if none
LookupFailure ==
  LET o == CASE server = "gov-uk-acronyms" -> world.fetch
             [] server = "gov-uk-search" -> world.search
             [] calls[1].adapter = "search_for_pages" -> world.search
             [] calls[1].adapter = "get_page_content" -> world.page
             [] calls[1].adapter = "summarise_page" -> world.summary
  IN IF o.kind = "fail" THEN o.exc ELSE Null

\* the exceptions raised to scrape_url for the relative links of the search results
ScrapeFailures ==
  IF server = "gov-uk-search" /\ world.search.kind = "ok"
     /\ world.search.value.type = "obj"
     /\ "results" \in DOMAIN world.search.value.m
  THEN LET rs == world.search.value.m["results"].items
       IN {world.scrape["https://www.gov.uk" \o rs[i].m["link"].s].exc :
             i \in {j \in 1..Len(rs) :
                      /\ "link" \in DOMAIN rs[j].m
                      /\ rs[j].m["link"].type = "str"
                      /\ StartsWith(rs[j].m["link"].s, "/")
                      /\ world.scrape["https://www.gov.uk" \o rs[j].m["link"].s].kind = "fail"}}
  ELSE {}

\* C10: every adapter is total: a failure of its lookup comes back as a
\* descriptive string, never as an exception; so a validated tools/call
\* whose lookup failed is still answered with a success Response with
\* isError false, and no response carries isError true.
C10_AdaptersTotal ==
  /\ (Returned /\ calls # <<>>) =>
       /\ failure = Null /\ ~raised
       /\ IsSuccess(response)
       /\ response.result.isError = FALSE
       /\ LookupFailure # Null =>
            Contains(LookupFailure.msg, response.result.content[1].text)
       /\ StartsWith(response.result.content[1].text, "[\n") =>
            \A e \in ScrapeFailures :
              Contains("Error scraping page: " \o e.msg, response.result.content[1].text)
  /\ (Returned /\ IsSuccess(response) /\ "isError" \in DOMAIN response.result) =>
       response.result.isError = FALSE

\* a validated call whose lookup raised
C10_Witness ==
  /\ Returned /\ server = "wikipedia" /\ calls # <<>>
  /\ calls[1].adapter = "summarise_page" /\ world.summary.kind = "fail"
  /\ IsSuccess(response)
  /\ response.result.content[1].text =
       "Error getting results from wikipedia: " \o world.summary.exc.msg

----------------------------------------------------------------------------
(* handle_request one statement at a time, for invocations that overlap.    *)
(* A frame holds the locals of one invocation: the event the shim was given,*)
(* the request object the code refers to, and the position reached.  The    *)
(* three handlers share this control flow; only the tool names differ       *)
(* (wikipedia reads `arguments` before comparing the name, the other two    *)
(* after, and none checks it until the name has matched).                   *)

\* the locals of an invocation that has just been entered
Frame(event) ==
  [pc |-> "method", event |-> event, request |-> event, tool_name |-> Null,
   arg |-> Null, world |-> Null, result |-> Null, exc |-> Null,
   response |-> Null, steps |-> <<>>, calls |-> <<>>]

\* a slot with no invocation in it
NoFrame == [pc |-> "free"]

\* `return response`: the invocation is over
Done(f, returned) ==
  [f EXCEPT !.pc = "done", !.response = returned, !.steps = Append(@, f.pc)]

\* control moves on to position pc
Goto(f, position) == [f EXCEPT !.pc = position, !.steps = Append(@, f.pc)]

\* the if/elif chain on request.method
step_method(srv, f) ==
  LET req == f.request
  IN IF req.method = "tools/call" THEN Goto(f, "params")
     ELSE Done(f,
            CASE srv = "gov-uk-acronyms" ->
                   (IF req.method = "tools/list" THEN GovUKAcronyms_tools_list(req)
                    ELSE IF req.method = "initialize" THEN GovUKAcronyms_initialize(req)
                    ELSE IF req.method = "ping" THEN GovUKAcronyms_ping(req)
                    ELSE GovUKAcronyms_method_not_found(req)).value
              [] srv = "gov-uk-search" ->
                   (IF req.method = "tools/list" THEN GovUKSearch_tools_list(req)
                    ELSE IF req.method = "initialize" THEN GovUKSearch_initialize(req)
                    ELSE IF req.method = "ping" THEN GovUKSearch_ping(req)
                    ELSE GovUKSearch_method_not_found(req)).value
              [] srv = "wikipedia" ->
                   (IF req.method = "tools/list" THEN Wikipedia_tools_list(req)
                    ELSE IF req.method = "initialize" THEN Wikipedia_initialize(req)
                    ELSE IF req.method = "ping" THEN Wikipedia_ping(req)
                    ELSE Wikipedia_method_not_found(req)).value)

\* if not request.params: ...; tool_name = request.params.get("name")
step_params(srv, f) ==
  IF ~Truthy(f.request.params)
  THEN Done(f, JSONRPCError(ErrorData(INVALID_PARAMS, "Missing parameters"), f.request.id))
  ELSE [Goto(f, "name") EXCEPT !.tool_name = DictGet(f.request.params, "name", Null)]

\* the comparison of tool_name with the names of the server's tools
step_name(srv, f) ==
  IF f.tool_name.type = "str" /\ f.tool_name.s \in ServerToolNames(srv)
  THEN Goto(f, "argument")
  ELSE Done(f, JSONRPCError(ErrorData(INVALID_PARAMS,
                 "Unknown tool: " \o PyStr(f.tool_name)), f.request.id))

\* the adapter called with whatever arguments.get returned, unchecked
step_argument_unchecked(srv, f) ==
  LET arguments == DictGet(f.request.params, "arguments", Obj(EmptyMap))
      param == RequiredArgument(f.tool_name.s)
  IN IF arguments.type # "obj"
     THEN [Goto(f, "except") EXCEPT !.exc = AttributeError(arguments, "get")]
     ELSE [Goto(f, "invoke") EXCEPT !.arg = DictGet(arguments, param, Null)]

\* <param> = arguments.get("<param>"); if not <param>: ...
step_argument(srv, f) ==
  LET arguments == DictGet(f.request.params, "arguments", Obj(EmptyMap))
      param == RequiredArgument(f.tool_name.s)
  IN IF arguments.type # "obj"
     THEN [Goto(f, "except") EXCEPT !.exc = AttributeError(arguments, "get")]
     ELSE IF ~Truthy(DictGet(arguments, param, Null))
     THEN Done(f, JSONRPCError(ErrorData(INVALID_PARAMS,
                    param \o " parameter is required"), f.request.id))
     ELSE [Goto(f, "invoke") EXCEPT !.arg = DictGet(arguments, param, Null)]

\* result = <adapter>(<param>), the outside world answering w
step_invoke(srv, f, w) ==
  LET r == AdapterReturn(f.tool_name.s, f.arg, w)
      g == [f EXCEPT !.world = w,
                     !.calls = Append(@, [adapter |-> AdapterName(f.tool_name.s),
                                          arg |-> f.arg])]
  IN IF r.kind = "raise" THEN [Goto(g, "except") EXCEPT !.exc = r.exc]
     ELSE [Goto(g, "wrap") EXCEPT !.result = r.value]

\* return JSONRPCResponse(... result ...)
step_wrap(srv, f) ==
  Done(f, JSONRPCResponse(ToolCallResult(f.result), f.request.id))

\* an except clause that answers without the request's id
step_except_null_id(srv, f) ==
  Done(f, JSONRPCError(ErrorData(INTERNAL_ERROR, f.exc.msg), Null))

\* except Exception as e: return JSONRPCError(INTERNAL_ERROR, str(e))
step_except(srv, f) ==
  Done(f, JSONRPCError(ErrorData(INTERNAL_ERROR, f.exc.msg), f.request.id))

\* a handler that keeps the request on the instance (self.request = request)
\* and reads it back from there in every later statement
handle_request_step_on_self(srv, self, f, w) ==
  LET g == IF f.pc = "method" THEN f ELSE [f EXCEPT !.request = self.request]
  IN [self |-> IF f.pc = "method" THEN [request |-> f.request] ELSE self,
      frame |->
        CASE g.pc = "method" -> step_method(srv, g)
          [] g.pc = "params" -> step_params(srv, g)
          [] g.pc = "name" -> step_name(srv, g)
          [] g.pc = "argument" -> step_argument(srv, g)
          [] g.pc = "invoke" -> step_invoke(srv, g, w)
          [] g.pc = "wrap" -> step_wrap(srv, g)
          [] g.pc = "except" -> step_except(srv, g)]

\* the next statement of handle_request(self, request, context): what it
\* leaves in the instance and in the invocation's locals
handle_request_step(srv, self, f, w) ==
  [self |-> self,
   frame |->
     CASE f.pc = "method" -> step_method(srv, f)
       [] f.pc = "params" -> step_params(srv, f)
       [] f.pc = "name" -> step_name(srv, f)
       [] f.pc = "argument" -> step_argument(srv, f)
       [] f.pc = "invoke" -> step_invoke(srv, f, w)
       [] f.pc = "wrap" -> step_wrap(srv, f)
       [] f.pc = "except" -> step_except(srv, f)]

----------------------------------------------------------------------------
(* Overlapping invocations of one server's handler.  The process has loaded *)
(* one module (server); its request_handler object is the one thing every   *)
(* invocation is handed besides its own request.                            *)

\* bound of the model: the most invocations in progress at once
MaxInFlight == 2

Slots == 1..MaxInFlight

\* one tool call of each server, complete
ValidCall(srv) ==
  CASE srv = "gov-uk-acronyms" ->
         Obj([name |-> Str("search_gov_uk_acronym"),
              arguments |-> Obj([acronym |-> Str("nhs")])])
    [] srv = "gov-uk-search" ->
         Obj([name |-> Str("search_gov_uk"),
              arguments |-> Obj([search_term |-> Str("nhs")])])
    [] srv = "wikipedia" ->
         Obj([name |-> Str("summarise_page"), arguments |-> Obj([topic |-> Str("nhs")])])

\* requests that take each path through handle_request, with ids of each kind
ConcurrentRequests(srv) ==
  LET valid == ValidCall(srv)
      name == valid.m["name"]
      R(id, method, params) ==
        [jsonrpc |-> "2.0", id |-> id, method |-> method, params |-> params]
  IN {R(Num(1), "ping", Null),
      R(Str("req-1"), "initialize", valid),
      R(Null, "tools/list", Null),
      R(Num(1), "bogus", valid),
      R(Str("req-1"), "tools/call", Null),
      R(Num(1), "tools/call", Obj([name |-> Str("no_such_tool"),
                                   arguments |-> valid.m["arguments"]])),
      R(Null, "tools/call", Obj([name |-> name])),
      R(Num(1), "tools/call", Obj([name |-> name, arguments |-> Null])),
      R(Num(1), "tools/call", valid),
      R(Str("req-1"), "tools/call", valid),
      R(Null, "tools/call", valid)}

\* a lookup that succeeds and one that fails, for each server
ConcurrentWorlds(srv) ==
  CASE srv = "gov-uk-acronyms" ->
         {[fetch |-> Fail(ConnectionError)],
          [fetch |-> Ok([th |-> <<"NHS">>,
                         td |-> <<"National Health Service", "", "DHSC", "">>])]}
    [] srv = "gov-uk-search" ->
         {[search |-> Fail(HTTPError), scrape |-> [u \in ScrapeUrls |-> Fail(Timeout)]],
          [search |-> Ok(Obj([results |-> Arr(<<Obj([link |-> Str("/vat-rates")])>>)])),
           scrape |-> [u \in ScrapeUrls |-> Ok(CHOOSE h \in HtmlPages : TRUE)]]}
    [] srv = "wikipedia" ->
         {[search |-> Fail(ConnectionError), page |-> Fail(PageError),
           summary |-> Fail(PageError)],
          [search |-> Ok(<<"National Health Service">>),
           page |-> Ok("The National Health Service (NHS) is ..."),
           summary |-> Ok("The NHS is the publicly funded healthcare system.")]}

InitConcurrent ==
  /\ server \in Servers
  /\ request_handler = EmptyMap
  /\ frames = [i \in Slots |-> NoFrame]
  /\ pc = "idle"
  /\ request = Null
  /\ world = Null
  /\ response = Null
  /\ raised = FALSE
  /\ failure = Null
  /\ calls = <<>>
  /\ listed = [s \in Servers |-> {}]
  /\ fn_args = Null
  /\ fn_result = Null

\* lambda_handler: event_handler.handle enters handle_request with an event
lambda_handler_enter(i) ==
  /\ frames[i].pc = "free"
  /\ \E event \in ConcurrentRequests(server) :
       frames' = [frames EXCEPT ![i] = Frame(event)]
  /\ UNCHANGED <<pc, server, request, world, response, raised, failure, calls,
                 listed, request_handler, fn_args, fn_result>>

\* the invocation in slot i executes its next statement
handle_request_next(i) ==
  /\ frames[i].pc \notin {"free", "done"}
  /\ \E w \in (IF frames[i].pc = "invoke" THEN ConcurrentWorlds(server) ELSE {Null}) :
       LET r == handle_request_step(server, request_handler, frames[i], w)
       IN /\ request_handler' = r.self
          /\ frames' = [frames EXCEPT ![i] = r.frame]
  /\ UNCHANGED <<pc, server, request, world, response, raised, failure, calls,
                 listed, fn_args, fn_result>>

\* lambda_handler returns the response of the invocation in slot i
lambda_handler_return(i) ==
  /\ frames[i].pc = "done"
  /\ frames' = [frames EXCEPT ![i] = NoFrame]
  /\ UNCHANGED <<pc, server, request, world, response, raised, failure, calls,
                 listed, request_handler, fn_args, fn_result>>

NextConcurrent ==
  \E i \in Slots :
    \/ lambda_handler_enter(i)
    \/ handle_request_next(i)
    \/ lambda_handler_return(i)

SpecConcurrent == InitConcurrent /\ [][NextConcurrent]_vars

\* the finished invocations
Finished == {i \in Slots : frames[i].pc = "done"}

\* C11: the response of a request is a function of the request and of what
\* its adapter call yielded: every finished invocation, whatever other
\* invocations ran before it or overlap with it, holds the response
\* handle_request gives for its request handled alone; two invocations of the
\* same request with the same adapter behaviour hold the same response; and
\* no invocation leaves anything on the shared handler object.
C11_HandledAlone ==
  /\ \A i \in Finished :
       frames[i].response =
         handle_request(server, frames[i].event, frames[i].world).value
  /\ \A i, j \in Finished :
       (frames[i].event = frames[j].event /\ frames[i].world = frames[j].world)
         => frames[i].response = frames[j].response
  /\ request_handler = EmptyMap

\* a finished tool call while a call with another id is between its adapter
\* call and its response
C11_Witness ==
  /\ frames[1].pc = "done" /\ frames[1].calls # <<>> /\ frames[1].request.id = Num(1)
  /\ IsSuccess(frames[1].response)
  /\ frames[2].pc = "wrap" /\ frames[2].request.id = Str("req-1")
  /\ frames[1].world # frames[2].world

\* the checks of a tools/call all pass for the request of frame f
ChecksPassed(f) ==
  /\ f.request.method = "tools/call"
  /\ Truthy(f.request.params)
  /\ LET name == DictGet(f.request.params, "name", Null)
         arguments == DictGet(f.request.params, "arguments", Obj(EmptyMap))
     IN /\ name.type = "str" /\ name.s \in ServerToolNames(server)
        /\ arguments.type = "obj"
        /\ Truthy(DictGet(arguments, RequiredArgument(name.s), Null))

\* the invocation of frame f was answered with a protocol error
ProtocolError(f) ==
  /\ f.pc = "done" /\ IsErrorResponse(f.response)
  /\ f.response.error.code \in {METHOD_NOT_FOUND, INVALID_PARAMS}

\* what one step may do to the invocation in a slot, f before and g after
AdapterDiscipline(f, g) ==
  /\ g.pc # "free" =>
       /\ Len(g.calls) <= 1
       /\ g.calls # <<>> => ChecksPassed(g)
       /\ (g.request.method # "tools/call" \/ ProtocolError(g)) => g.calls = <<>>
  /\ (f.pc # "free" /\ g.pc # "free" /\ g.calls # f.calls) =>
       /\ f.pc = "invoke" /\ f.calls = <<>>
       /\ f.steps = <<"method", "params", "name", "argument">>
  /\ (f.pc = "free" /\ g.pc # "free") => g.calls = <<>>
  /\ f.pc = "done" => g \in {f, NoFrame}

\* C12: handling one request invokes an adapter at most once, and only from
\* the position reached after the method matched tools/call and the params,
\* tool-name and required-argument checks passed, in that order; no adapter
\* runs for initialize, ping, tools/list, an unknown method or a tools/call
\* answered with INVALID_PARAMS; and once a response is returned the
\* invocation takes no further step (a protocol error is not retried).
C12_AdapterAfterChecks ==
  [][\A i \in Slots : AdapterDiscipline(frames[i], frames'[i])]_vars

\* an adapter call just made, beside an invocation ended by a protocol error
C12_Witness ==
  /\ frames[1].pc = "wrap" /\ Len(frames[1].calls) = 1
  /\ frames[1].steps = <<"method", "params", "name", "argument", "invoke">>
  /\ ProtocolError(frames[2]) /\ frames[2].request.method = "tools/call"
  /\ frames[2].steps = <<"method", "params", "name", "argument">>

\* the invocations in progress or finished
Entered == {i \in Slots : frames[i].pc # "free"}

\* C13: every object handle_request returns, on every path (success of any
\* method, method not found, each INVALID_PARAMS error, the blanket
\* INTERNAL_ERROR), carries jsonrpc "2.0" and the id of the request it
\* answers, be it a string, a number or null; and at no position has the
\* handler changed the request object it was given.
C13_IdEchoed ==
  /\ \A i \in Entered : frames[i].request = frames[i].event
  /\ \A i \in Finished :
       /\ frames[i].response.jsonrpc = "2.0"
       /\ frames[i].response.id = frames[i].event.id

\* the blanket error answered to a numbered request, beside a success
\* answered to a request whose id is null
C13_Witness ==
  /\ frames[1].pc = "done" /\ frames[1].steps[Len(frames[1].steps)] = "except"
  /\ ErrorIs(frames[1].response, INTERNAL_ERROR,
             "'NoneType' object has no attribute 'get'")
  /\ frames[1].response.id = Num(1)
  /\ frames[2].pc = "done" /\ IsSuccess(frames[2].response)
  /\ frames[2].response.id = Null /\ frames[2].calls # <<>>

----------------------------------------------------------------------------
(* search_gov_uk as a function of its search term and of what the search    *)
(* request and the page requests yield.                                     *)

\* bound of the model: the most results a search response holds
MaxResults == 3

\* one result of a search response: a relative link, a full web link, an
\* empty link, or no link at all
ResultValues ==
  {Obj([link |-> Str("/vat-rates")]), Obj([link |-> Str("/income-tax")]),
   Obj([link |-> Str("https://www.example.org/guide")]),
   Obj([link |-> Str("")]), Obj(EmptyMap)}

SeqsUpTo(S, n) == UNION {[1..k -> S] : k \in 0..n}

SearchResponses ==
  {Obj(EmptyMap), Obj([results |-> Null])}
  \cup {Obj([results |-> Arr(rs)]) : rs \in SeqsUpTo(ResultValues, MaxResults)}

\* what requesting a page yields: its html, or 404 from raise_for_status
PageOutcomes(url) ==
  {Fail(Exc("HTTPError", "404 Client Error: Not Found for url: " \o url)),
   Ok([text |-> "<main role=\"main\">\n <a href=\"" \o url \o "\">Guide</a>\t</main>",
       main_match |-> Null,
       fallback_match |-> Str("\n <a href=\"" \o url \o "\">Guide</a>\t")])}

SearchInputs ==
  {[search_term |-> t,
    w |-> [search |-> Ok(d), scrape |-> [u \in ScrapeUrls |-> o[u]]]] :
     t \in {Str("vat"), Str("income tax")},
     d \in SearchResponses,
     o \in {f \in [ScrapeUrls -> UNION {PageOutcomes(u) : u \in ScrapeUrls}] :
              \A u \in ScrapeUrls : f[u] \in PageOutcomes(u)}}

\* every variable but the adapter's arguments and result is at rest
HandlersAtRest ==
  /\ pc = "idle"
  /\ server = "none"
  /\ request = Null
  /\ world = Null
  /\ response = Null
  /\ raised = FALSE
  /\ failure = Null
  /\ calls = <<>>
  /\ listed = [s \in Servers |-> {}]
  /\ request_handler = EmptyMap
  /\ frames = <<>>

InitSearch ==
  /\ HandlersAtRest
  /\ fn_args \in SearchInputs
  /\ fn_result = Null

\* result = search_gov_uk(search_term)
search_gov_uk_applied ==
  /\ fn_result = Null
  /\ fn_result' = search_gov_uk(fn_args.search_term, fn_args.w)
  /\ UNCHANGED <<pc, server, request, world, response, raised, failure, calls,
                 listed, request_handler, frames, fn_args>>

NextSearch == search_gov_uk_applied

SpecSearch == InitSearch /\ [][NextSearch]_vars

\* the number of backslashes in a row that end just before position i of s
BackslashesBefore(s, i) ==
  CHOOSE n \in 0..(i - 1) :
    /\ \A k \in 1..n : SubSeq(s, i - k, i - k) = "\\"
    /\ n = i - 1 \/ SubSeq(s, i - n - 1, i - n - 1) # "\\"

\* position i of s holds a backslash that escapes the character after it
Escapes(s, i) == SubSeq(s, i, i) = "\\" /\ BackslashesBefore(s, i) % 2 = 0

RECURSIVE Concat(_, _, _)
\* pieces[lo] \o ... \o pieces[hi]
Concat(pieces, lo, hi) ==
  IF lo > hi THEN ""
  ELSE IF lo = hi THEN pieces[lo]
  ELSE LET mid == (lo + hi) \div 2
       IN Concat(pieces, lo, mid) \o Concat(pieces, mid + 1, hi)

\* the text a JSON string literal with this body stands for
JsonUnescape(s) ==
  LET c(i) == SubSeq(s, i, i)
      piece(i) ==
        IF Escapes(s, i) THEN ""
        ELSE IF i > 1 /\ Escapes(s, i - 1)
        THEN (CASE c(i) = "n" -> "\n" [] c(i) = "t" -> "\t" [] c(i) = "r" -> "\r"
                [] OTHER -> c(i))
        ELSE c(i)
  IN Concat([i \in 1..Len(s) |-> piece(i)], 1, Len(s))

\* the positions in s of the quotes that open or close a string literal:
\* those preceded by an even number of backslashes
QuotePositions(s) ==
  {i \in 1..Len(s) : SubSeq(s, i, i) = "\"" /\ BackslashesBefore(s, i) % 2 = 0}

\* json.loads of a text that is an array of strings
JsonLoadsArray(s) ==
  LET quotes == QuotePositions(s)
      nth(k) == CHOOSE q \in quotes : Cardinality({p \in quotes : p < q}) = k - 1
  IN [k \in 1..(Cardinality(quotes) \div 2) |->
        JsonUnescape(SubSeq(s, nth(2 * k - 1) + 1, nth(2 * k) - 1))]
IsJsonArray(s) == Len(s) >= 2 /\ Head(s) = "[" /\ SubSeq(s, Len(s), Len(s)) = "]"

\* the results of the search response, empty when it holds none
GivenResults ==
  LET d == fn_args.w.search.value
  IN IF "results" \in DOMAIN d.m /\ d.m["results"].type = "list"
     THEN d.m["results"].items ELSE <<>>

\* the links of the results that are non-empty and do not start with https://
KeptLinks ==
  SelectSeq([i \in 1..Len(GivenResults) |-> DictGet(GivenResults[i], "link", Str("")).s],
            LAMBDA l : l # "" /\ ~StartsWith(l, "https://"))

KeptUrls == [i \in 1..Len(KeptLinks) |-> "https://www.gov.uk" \o KeptLinks[i]]

\* C14: search_gov_uk on a search response: without results it returns
\* "No results found for search term: <term>"; with results but no link that
\* is non-empty and does not start with "https://" it returns "No valid links
\* found in search results for: <term>"; otherwise it requests the kept links
\* one after the other in result order and returns a JSON array with one
\* entry per kept link in that order, the entry of a page whose request
\* failed being "Error scraping page: <failure>" and the pages after it still
\* being requested.
C14_SearchGovUk ==
  fn_result # Null =>
    LET term == fn_args.search_term.s
        text == fn_result.value
    IN /\ fn_result.kind = "return"
       /\ GivenResults = <<>> =>
            /\ text = "No results found for search term: " \o term
            /\ fn_result.calls = <<search_url>>
       /\ (GivenResults # <<>> /\ KeptLinks = <<>>) =>
            /\ text = "No valid links found in search results for: " \o term
            /\ fn_result.calls = <<search_url>>
       /\ KeptLinks # <<>> =>
            /\ IsJsonArray(text)
            /\ fn_result.calls = <<search_url>> \o KeptUrls
            /\ Len(JsonLoadsArray(text)) = Len(KeptUrls)
            /\ \A i \in 1..Len(KeptUrls) :
                 LET page == fn_args.w.scrape[KeptUrls[i]]
                 IN JsonLoadsArray(text)[i] =
                      IF page.kind = "fail"
                      THEN "Error scraping page: " \o page.exc.msg
                      ELSE extract_body_content(page.value)

\* two kept links around a full web link, the first one's page failing
C14_Witness ==
  /\ fn_result # Null
  /\ Len(GivenResults) = 3
  /\ KeptLinks = <<"/vat-rates", "/income-tax">>
  /\ DictGet(GivenResults[2], "link", Str("")) = Str("https://www.example.org/guide")
  /\ fn_args.w.scrape["https://www.gov.uk/vat-rates"].kind = "fail"
  /\ fn_args.w.scrape["https://www.gov.uk/income-tax"].kind = "ok"
  /\ Len(JsonLoadsArray(fn_result.value)) = 2
  /\ StartsWith(JsonLoadsArray(fn_result.value)[1], "Error scraping page: 404")
  /\ JsonLoadsArray(fn_result.value)[2] =
       "<a href=\"https://www.gov.uk/income-tax\">Guide</a>"

----------------------------------------------------------------------------
(* search_gov_uk_acronyms as a function of the query and of the page.       *)

\* bound of the model: the most rows the table of the page holds
MaxRows == 4

\* a table row: its header cell and its four data cells
TableRows ==
  {[th |-> "NHS", td |-> <<"National Health Service", "Publicly funded healthcare",
                           "DHSC", "">>],
   [th |-> "\n nhs ", td |-> <<" Nice Hot Soup ", "", "", "Catering">>],
   [th |-> "NHSX", td |-> <<"NHS user experience", "", "", "">>],
   [th |-> "HS", td |-> <<"High Speed", "", "DfT", "">>],
   [th |-> "DHSC", td |-> <<"Department of Health and Social Care", "Ministry", "", "">>]}

RECURSIVE Flatten(_)
Flatten(seqs) == IF seqs = <<>> THEN <<>> ELSE Head(seqs) \o Flatten(Tail(seqs))

\* the header and data cells the two regexes find in a page of these rows
\* whose last `cut` data cells are missing
PageOf(rows, cut) ==
  LET cells == Flatten([i \in 1..Len(rows) |-> rows[i].td])
  IN [th |-> [i \in 1..Len(rows) |-> rows[i].th],
      td |-> SubSeq(cells, 1, Len(cells) - cut)]

AcronymQueries == {"nhs", "NHS", "h", "nhsx1", "zz"}

AcronymInputs ==
  {[acronym |-> Str(q), w |-> [fetch |-> Ok(PageOf(rows, cut))]] :
     q \in AcronymQueries,
     rows \in SeqsUpTo(TableRows, MaxRows),
     cut \in {0, 1}}

InitAcronyms ==
  /\ HandlersAtRest
  /\ fn_args \in AcronymInputs
  /\ fn_result = Null

\* result = search_gov_uk_acronyms(acronym)
search_gov_uk_acronyms_applied ==
  /\ fn_result = Null
  /\ fn_result' = search_gov_uk_acronyms(fn_args.acronym, fn_args.w)
  /\ UNCHANGED <<pc, server, request, world, response, raised, failure, calls,
                 listed, request_handler, frames, fn_args>>

NextAcronyms == search_gov_uk_acronyms_applied

SpecAcronyms == InitAcronyms /\ [][NextAcronyms]_vars

\* the page and the query the function was given
GivenPage == fn_args.w.fetch.value
GivenQuery == fn_args.acronym.s

\* the table rows all four of whose cells exist, by position
CompleteRows == {k \in 1..Len(GivenPage.th) : 4 * k <= Len(GivenPage.td)}
RowKey(k) == Upper(Strip(GivenPage.th[k]))
RowCell(k, j) == Strip(GivenPage.td[4 * (k - 1) + j])
\* the row that speaks for the key of row k: the last complete row with it
RowFor(k) ==
  CHOOSE r \in CompleteRows :
    /\ RowKey(r) = RowKey(k)
    /\ \A o \in CompleteRows : RowKey(o) = RowKey(k) => o <= r

RowAnswer(k) ==
  Strip(GivenPage.th[k]) \o " stands for " \o RowCell(k, 1) \o "."
  \o (IF RowCell(k, 2) # "" THEN " Definition: " \o RowCell(k, 2) ELSE "")
  \o (IF RowCell(k, 3) # "" THEN " Department: " \o RowCell(k, 3) ELSE "")
  \o (IF RowCell(k, 4) # "" THEN " Team: " \o RowCell(k, 4) ELSE "")

\* the rows where a key first appears and that key contains the upper-cased
\* query or is contained in it
SimilarRows ==
  {k \in CompleteRows :
     /\ \A o \in CompleteRows : o < k => RowKey(o) # RowKey(k)
     /\ \/ Contains(Upper(GivenQuery), RowKey(k))
        \/ Contains(RowKey(k), Upper(GivenQuery))}

\* the n-th smallest member of a set of numbers
Nth(S, n) == CHOOSE x \in S : Cardinality({y \in S : y < x}) = n - 1
Min(a, b) == IF a < b THEN a ELSE b

\* C15: search_gov_uk_acronyms over the table of the page (rows with all
\* four cells, keyed by the upper-cased acronym): when the upper-cased query
\* is a key it returns "<acronym> stands for <meaning>." followed by the
\* non-empty ones of Definition, Department and Team, whatever partial
\* matches exist; otherwise, when some key contains the query or is contained
\* in it, the "No exact match found" text with the first three such keys at
\* most, in table order; otherwise the "No definition found" text.
C15_AcronymLookup ==
  fn_result # Null =>
    LET text == fn_result.value
        exact == {k \in CompleteRows : RowKey(k) = Upper(GivenQuery)}
        shown == [n \in 1..Min(3, Cardinality(SimilarRows)) |->
                    LET r == RowFor(Nth(SimilarRows, n))
                    IN Strip(GivenPage.th[r]) \o ": " \o RowCell(r, 1)]
    IN /\ fn_result.kind = "return"
       /\ exact # {} => \E k \in exact : text = RowAnswer(RowFor(k))
       /\ (exact = {} /\ SimilarRows # {}) =>
            text = "No exact match found for '" \o GivenQuery
                     \o "'. Similar acronyms:\n" \o Join("\n", shown)
       /\ (exact = {} /\ SimilarRows = {}) =>
            text = "No definition found for acronym '" \o GivenQuery
                     \o "'. The acronym may not be in the UK government database."

\* a lower-case query that four keys contain, none of them equal to it
C15_Witness ==
  /\ fn_result # Null /\ GivenQuery = "h"
  /\ GivenPage.th = <<"DHSC", "NHS", "HS", "NHSX">> /\ Len(GivenPage.td) = 16
  /\ fn_result.value =
       "No exact match found for 'h'. Similar acronyms:\n"
         \o "DHSC: Department of Health and Social Care\n"
         \o "NHS: National Health Service\nHS: High Speed"

====
